---------------------------- MODULE Spec2Model ----------------------------
(***************************************************************************)
(* The memory bus of src/memory.rs: struct Memory (the 64KB array, the I/O *)
(* registers, the interrupt-enable register, the current bank, the DMA     *)
(* flag) and its bank controller, enum MBC.                                *)
(*                                                                         *)
(* Every method of Memory and MBC is an operator over a bus record (the    *)
(* struct's fields); the actions apply these operators to the variables.   *)
(* u8/u16 arithmetic keeps its width.  An overflowing add, multiply or     *)
(* shift has the two outcomes a build can produce: a panic (overflow       *)
(* checks on, rustc's debug default) or the wrapped result (checks off).   *)
(***************************************************************************)
EXTENDS Integers, Sequences, FiniteSets, TLC

VARIABLES
    mem,              \* Memory.mem: [u8; 0x10000], kept as index -> non-zero byte (absent = 0)
    current_bank,     \* Memory.current_bank: u8
    registers,        \* Memory.registers: [u8; 0x100], kept like mem
    mbc,              \* Memory.mbc: the MBC variant with the registers its methods use
    interrupt_enable, \* Memory.interrupt_enable: u8
    dma_transfer,     \* Memory.dma_transfer: bool
    panicked,         \* the program has panicked (it runs no further)
    writes,           \* number of write_byte / write_word calls made so far
    pc,               \* "idle", or "dma_loop" inside the for loop of dma_transfer
    dma_i,            \* the loop variable i of dma_transfer
    dma_source,       \* the argument of the dma_transfer call in progress
    dma_saved         \* the bus as it was when the dma_transfer in progress was called

vars == <<mem, current_bank, registers, mbc, interrupt_enable, dma_transfer,
          panicked, writes, pc, dma_i, dma_source, dma_saved>>

busVars == <<mem, current_bank, registers, mbc, interrupt_enable, dma_transfer>>

dmaVars == <<pc, dma_i, dma_source, dma_saved>>

-----------------------------------------------------------------------------
(* Bounds of the exploration.                                              *)

\* write_byte / write_word calls explored per run
MaxWrites == 1

\* write_byte calls explored before the dma_transfer calls of SpecDma
MaxDmaWrites == 2

-----------------------------------------------------------------------------
(* Machine arithmetic.                                                     *)

(* u16 arithmetic: the wrapped result, and whether the exact one overflows. *)
Wrap16(x) == x % 65536

Overflows16(x) == x > \hFFFF

RECURSIVE BitAnd(_, _)
BitAnd(x, y) ==
    IF x = 0 \/ y = 0 THEN 0
    ELSE (x % 2) * (y % 2) + 2 * BitAnd(x \div 2, y \div 2)

RECURSIVE BitOr(_, _)
BitOr(x, y) ==
    IF x = 0 THEN y
    ELSE IF y = 0 THEN x
    ELSE (IF (x % 2) + (y % 2) > 0 THEN 1 ELSE 0) + 2 * BitOr(x \div 2, y \div 2)

Shl(x, n) == x * (2 ^ n)

Shr(x, n) == x \div (2 ^ n)

(* x << n on a u8: the shift overflows when n >= 8; the wrapped result     *)
(* shifts by n modulo 8 and keeps the low 8 bits.                          *)
Shl8Overflows(n) == n >= 8

Shl8(x, n) == (x * (2 ^ (n % 8))) % 256

(* A zero-initialised byte array, kept as the map of its non-zero bytes.   *)
ZeroArray == [i \in {} |-> 0]

Peek(a, i) == IF i \in DOMAIN a THEN a[i] ELSE 0

Poke(a, i, v) ==
    IF v = 0
    THEN [j \in (DOMAIN a) \ {i} |-> a[j]]
    ELSE [j \in (DOMAIN a) \cup {i} |-> IF j = i THEN v ELSE a[j]]

-----------------------------------------------------------------------------
(* enum MBC and the registers its methods read and write.  The enum of the *)
(* source declares no fields; ram_enable, rom_bank, ram_bank and rom_mode  *)
(* are the names get_bank and set_bank use on self.  They start at zero /  *)
(* false, like every field Memory::new() sets, and the registers are taken *)
(* wide enough for the masks set_bank applies to them (0x0100 in the MBC5  *)
(* arm).  val is a u8, so the shifts of val are u8 shifts.                 *)

MBCKinds == {"None", "MBC1", "MBC2", "MBC3", "MBC5"}

MBC_new(kind) ==
    [kind |-> kind, ram_enable |-> FALSE, rom_bank |-> 0, ram_bank |-> 0,
     rom_mode |-> FALSE]

(* Mutant of get_bank: MBC2, MBC3 and MBC5 return their own ROM bank number *)
MBC_get_bank_own(m, bank) ==
    CASE m.kind = "None" -> bank
      [] m.kind = "MBC1" ->
            IF m.rom_mode
            THEN BitAnd(bank, \h1F)
            ELSE BitOr(BitAnd(bank, \h03), m.ram_bank % 256)
      [] m.kind = "MBC2" -> BitAnd(m.rom_bank, \h0F)
      [] m.kind = "MBC3" -> m.rom_bank % 256
      [] m.kind = "MBC5" -> m.rom_bank % 256

(* MBC::get_bank(&self, bank: u8) -> u8 *)
MBC_get_bank(m, bank) ==
    CASE m.kind = "None" -> bank
      [] m.kind = "MBC1" ->
            IF m.rom_mode
            THEN BitAnd(bank, \h1F)
            ELSE BitOr(BitAnd(bank, \h03), m.ram_bank % 256)
      [] m.kind = "MBC2" -> BitAnd(bank, \h0F)
      [] m.kind = "MBC3" -> bank
      [] m.kind = "MBC5" -> bank

(* Mutant of EnableNibble: the whole byte is compared, the mask forgotten. *)
EnableNibble_unmasked(val) == val = \h0A

(* val & 0x0F == 0x0A *)
EnableNibble(val) == BitAnd(val, \h0F) = \h0A

MBC1_set_bank(m, addr, val) ==
    IF addr < \h2000 THEN [m EXCEPT !.ram_enable = EnableNibble(val)]
    ELSE IF addr < \h4000
    THEN [m EXCEPT !.rom_bank = BitOr(BitAnd(m.rom_bank, \h60), BitAnd(val, \h1F))]
    ELSE IF addr < \h6000
    THEN IF m.rom_mode
         THEN [m EXCEPT !.rom_bank =
                   BitOr(BitAnd(m.rom_bank, \h1F), Shl8(BitAnd(val, \h03), 5))]
         ELSE [m EXCEPT !.ram_bank = BitAnd(val, \h03)]
    ELSE IF addr < \h8000
    THEN [m EXCEPT !.rom_mode = (BitAnd(val, \h01) = 0)]
    ELSE m

MBC2_set_bank(m, addr, val) ==
    IF addr < \h2000 THEN [m EXCEPT !.ram_enable = EnableNibble(val)]
    ELSE IF addr < \h4000 THEN [m EXCEPT !.rom_bank = BitAnd(val, \h0F)]
    ELSE m

(* the MBC3 arm with the ROM bank number left unmasked *)
MBC3_set_bank_unmasked(m, addr, val) ==
    IF addr < \h2000 THEN [m EXCEPT !.ram_enable = EnableNibble(val)]
    ELSE IF addr < \h4000 THEN [m EXCEPT !.rom_bank = val]
    ELSE IF addr < \h6000 THEN [m EXCEPT !.ram_bank = BitAnd(val, \h03)]
    ELSE m

MBC3_set_bank(m, addr, val) ==
    IF addr < \h2000 THEN [m EXCEPT !.ram_enable = EnableNibble(val)]
    ELSE IF addr < \h4000 THEN [m EXCEPT !.rom_bank = BitAnd(val, \h7F)]
    ELSE IF addr < \h6000 THEN [m EXCEPT !.ram_bank = BitAnd(val, \h03)]
    ELSE m

MBC5_set_bank(m, addr, val) ==
    IF addr < \h2000 THEN [m EXCEPT !.ram_enable = EnableNibble(val)]
    ELSE IF addr < \h3000
    THEN [m EXCEPT !.rom_bank = BitOr(BitAnd(m.rom_bank, \h0100), val)]
    ELSE IF addr < \h4000
    THEN [m EXCEPT !.rom_bank =
              BitOr(BitAnd(m.rom_bank, \h00FF), Shl8(BitAnd(val, \h01), 8))]
    ELSE IF addr < \h6000 THEN [m EXCEPT !.ram_bank = BitAnd(val, \h0F)]
    ELSE m

(* MBC::set_bank(addr, val) overflows u8: (val & 0x01) << 8 of the MBC5 arm *)
SetBankOverflows(m, addr) ==
    /\ m.kind = "MBC5"
    /\ addr >= \h3000 /\ addr < \h4000
    /\ Shl8Overflows(8)

(* MBC::set_bank(&mut self, addr: u16, val: u8, mem: &mut [u8]): the new   *)
(* controller, overflow wrapping; no arm touches mem.                      *)
MBC_set_bank(m, addr, val) ==
    CASE m.kind = "None" -> m
      [] m.kind = "MBC1" -> MBC1_set_bank(m, addr, val)
      [] m.kind = "MBC2" -> MBC2_set_bank(m, addr, val)
      [] m.kind = "MBC3" -> MBC3_set_bank(m, addr, val)
      [] m.kind = "MBC5" -> MBC5_set_bank(m, addr, val)

-----------------------------------------------------------------------------
(* struct Memory as a record b, and its methods.                           *)

(* Memory::new(), with the controller the cartridge loader selects         *)
(* (new() itself builds MBC::None).                                        *)
Memory_new(kind) ==
    [mem |-> ZeroArray, current_bank |-> 0, registers |-> ZeroArray,
     mbc |-> MBC_new(kind), interrupt_enable |-> 0, dma_transfer |-> FALSE]

(* (self.mbc.get_bank(self.current_bank) as u16) * 0x4000, exact *)
BankOffsetExact(b) == MBC_get_bank(b.mbc, b.current_bank) * \h4000

(* the same in u16 *)
BankOffset(b) == Wrap16(BankOffsetExact(b))

(* read_byte(addr) overflows u16: in the multiplication or in addr + bank_offset *)
ReadOverflows(b, addr) ==
    /\ ~b.dma_transfer
    /\ addr >= \h4000 /\ addr < \h8000
    /\ \/ Overflows16(BankOffsetExact(b))
       \/ Overflows16(addr + BankOffset(b))

(* Mutant of read_byte: the transfer-in-progress test is missing. *)
read_byte_unguarded(b, addr) ==
    IF addr < \h4000 THEN Peek(b.mem, addr)
    ELSE IF addr < \h8000 THEN Peek(b.mem, Wrap16(addr + BankOffset(b)))
    ELSE IF addr < \hFF00 THEN Peek(b.mem, addr)
    ELSE IF addr < \hFFFF THEN Peek(b.registers, addr - \hFF00)
    ELSE b.interrupt_enable

(* Mutant of read_byte: 0xFFFF is decoded as the last I/O register. *)
read_byte_no_ie(b, addr) ==
    IF b.dma_transfer THEN \hFF
    ELSE IF addr < \h4000 THEN Peek(b.mem, addr)
    ELSE IF addr < \h8000 THEN Peek(b.mem, Wrap16(addr + BankOffset(b)))
    ELSE IF addr < \hFF00 THEN Peek(b.mem, addr)
    ELSE Peek(b.registers, addr - \hFF00)

(* Mutant of read_byte: the window 0x4000..0x7FFF reads mem[addr], whatever *)
(* the bank.                                                               *)
read_byte_unbanked(b, addr) ==
    IF b.dma_transfer THEN \hFF
    ELSE IF addr < \hFF00 THEN Peek(b.mem, addr)
    ELSE IF addr < \hFFFF THEN Peek(b.registers, addr - \hFF00)
    ELSE b.interrupt_enable

(* Memory::read_byte(&self, addr: u16) -> u8, overflow wrapping *)
read_byte(b, addr) ==
    IF b.dma_transfer THEN \hFF
    ELSE IF addr < \h4000 THEN Peek(b.mem, addr)
    ELSE IF addr < \h8000 THEN Peek(b.mem, Wrap16(addr + BankOffset(b)))
    ELSE IF addr < \hFF00 THEN Peek(b.mem, addr)
    ELSE IF addr < \hFFFF THEN Peek(b.registers, addr - \hFF00)
    ELSE b.interrupt_enable

(* Mutant of write_byte: the whole range below 0x8000 goes to the controller. *)
write_byte_forwarded(b, addr, val) ==
    IF b.dma_transfer THEN b
    ELSE IF addr < \h8000 THEN [b EXCEPT !.mbc = MBC_set_bank(b.mbc, addr, val)]
    ELSE IF addr < \hFF00 THEN [b EXCEPT !.mem = Poke(b.mem, addr, val)]
    ELSE IF addr < \hFFFF
    THEN [b EXCEPT !.registers = Poke(b.registers, addr - \hFF00, val)]
    ELSE [b EXCEPT !.interrupt_enable = val]

(* Mutant of write_byte: the I/O window is stored in the flat array. *)
write_byte_io_in_mem(b, addr, val) ==
    IF b.dma_transfer THEN b
    ELSE IF addr < \h4000 THEN [b EXCEPT !.mem = Poke(b.mem, addr, val)]
    ELSE IF addr < \h8000 THEN [b EXCEPT !.mbc = MBC_set_bank(b.mbc, addr, val)]
    ELSE IF addr < \hFFFF THEN [b EXCEPT !.mem = Poke(b.mem, addr, val)]
    ELSE [b EXCEPT !.interrupt_enable = val]

(* Mutant of write_byte: the transfer-in-progress test is missing. *)
write_byte_unguarded(b, addr, val) ==
    IF addr < \h4000 THEN [b EXCEPT !.mem = Poke(b.mem, addr, val)]
    ELSE IF addr < \h8000 THEN [b EXCEPT !.mbc = MBC_set_bank(b.mbc, addr, val)]
    ELSE IF addr < \hFF00 THEN [b EXCEPT !.mem = Poke(b.mem, addr, val)]
    ELSE IF addr < \hFFFF
    THEN [b EXCEPT !.registers = Poke(b.registers, addr - \hFF00, val)]
    ELSE [b EXCEPT !.interrupt_enable = val]

(* Memory::write_byte(&mut self, addr: u16, val: u8): the bus afterwards *)
write_byte(b, addr, val) ==
    IF b.dma_transfer THEN b
    ELSE IF addr < \h4000 THEN [b EXCEPT !.mem = Poke(b.mem, addr, val)]
    ELSE IF addr < \h8000 THEN [b EXCEPT !.mbc = MBC_set_bank(b.mbc, addr, val)]
    ELSE IF addr < \hFF00 THEN [b EXCEPT !.mem = Poke(b.mem, addr, val)]
    ELSE IF addr < \hFFFF
    THEN [b EXCEPT !.registers = Poke(b.registers, addr - \hFF00, val)]
    ELSE [b EXCEPT !.interrupt_enable = val]

(* Mutant of set_bank: the bank is also stored as the controller's ROM *)
(* bank number                                                         *)
set_bank_into_mbc(b, bank) ==
    [b EXCEPT !.current_bank = bank, !.mbc = [b.mbc EXCEPT !.rom_bank = bank]]

(* Memory::set_bank(&mut self, bank: u8) *)
set_bank(b, bank) == [b EXCEPT !.current_bank = bank]

(* addr + 1 in read_word and write_word overflows u16 *)
WordOverflows(addr) == Overflows16(addr + 1)

(* Mutant of read_word: the byte at addr is taken as the high byte *)
read_word_swapped(b, addr) ==
    LET low  == read_byte(b, addr)
        high == read_byte(b, Wrap16(addr + 1))
    IN  BitOr(Shl(low, 8), high)

(* Memory::read_word(&self, addr: u16) -> u16, overflow wrapping *)
read_word(b, addr) ==
    LET low  == read_byte(b, addr)
        high == read_byte(b, Wrap16(addr + 1))
    IN  BitOr(Shl(high, 8), low)

(* Mutant of write_word: the high byte is written first (big-endian). *)
write_word_big_endian(b, addr, val) ==
    write_byte(write_byte(b, addr, Shr(val, 8)), Wrap16(addr + 1), BitAnd(val, \hFF))

(* Memory::write_word(&mut self, addr: u16, val: u16), overflow wrapping *)
write_word(b, addr, val) ==
    write_byte(write_byte(b, addr, BitAnd(val, \hFF)), Wrap16(addr + 1), Shr(val, 8))

Interrupts == {"VBlank", "LCDStat", "Timer", "Serial", "Joypad"}

(* the match of check_interrupt *)
interrupt_flag(interrupt) ==
    CASE interrupt = "VBlank"  -> \h01
      [] interrupt = "LCDStat" -> \h02
      [] interrupt = "Timer"   -> \h04
      [] interrupt = "Serial"  -> \h08
      [] interrupt = "Joypad"  -> \h10

(* Mutant of check_interrupt: any enabled interrupt enables them all. *)
check_interrupt_any(b, interrupt) == b.interrupt_enable # 0

(* Memory::check_interrupt(&self, interrupt) -> bool *)
check_interrupt(b, interrupt) ==
    BitAnd(b.interrupt_enable, interrupt_flag(interrupt)) # 0

(* the match of trigger_interrupt *)
flag_addr(interrupt) == \hFF0F

(* Mutant of trigger_interrupt: each kind sets its own flag bit *)
trigger_interrupt_own_bit(b, interrupt) ==
    IF ~check_interrupt(b, interrupt) THEN b
    ELSE LET flag == read_byte(b, flag_addr(interrupt))
         IN  write_byte(b, flag_addr(interrupt), BitOr(flag, interrupt_flag(interrupt)))

(* Memory::trigger_interrupt(&mut self, interrupt) *)
trigger_interrupt(b, interrupt) ==
    IF ~check_interrupt(b, interrupt) THEN b
    ELSE LET flag == read_byte(b, flag_addr(interrupt))
         IN  write_byte(b, flag_addr(interrupt), BitOr(flag, \h01))

(* one iteration of the for loop of dma_transfer *)
dma_copy(b, source, i) ==
    LET source_addr == Shl(source, 8)
    IN  write_byte(b, i, read_byte(b, source_addr + (i - \hFE00)))

(* the iterations lo <= i < hi of the for loop of dma_transfer, in order.  *)
(* The range is split in halves and the first half is evaluated (the test  *)
(* on it is always true) before the second starts from its result, which   *)
(* keeps TLC's evaluation shallow.                                         *)
RECURSIVE dma_loop(_, _, _, _)
dma_loop(b, source, lo, hi) ==
    IF lo >= hi THEN b
    ELSE IF hi = lo + 1 THEN dma_copy(b, source, lo)
    ELSE LET mid   == (lo + hi) \div 2
             first == dma_loop(b, source, lo, mid)
         IN  IF first.dma_transfer \in BOOLEAN
             THEN dma_loop(first, source, mid, hi)
             ELSE first

(* Memory::dma_transfer(&mut self, source: u8), the whole call *)
dma_transfer_call(b, source) ==
    IF b.dma_transfer THEN b
    ELSE [dma_loop([b EXCEPT !.dma_transfer = TRUE], source, \hFE00, \hFEA0)
             EXCEPT !.dma_transfer = FALSE]

-----------------------------------------------------------------------------
(* The state machine.                                                      *)

(* the fields of the Memory value held in the variables *)
Bus ==
    [mem |-> mem, current_bank |-> current_bank, registers |-> registers,
     mbc |-> mbc, interrupt_enable |-> interrupt_enable,
     dma_transfer |-> dma_transfer]

SetBus(b) ==
    /\ mem' = b.mem
    /\ current_bank' = b.current_bank
    /\ registers' = b.registers
    /\ mbc' = b.mbc
    /\ interrupt_enable' = b.interrupt_enable
    /\ dma_transfer' = b.dma_transfer

IsBus(b) ==
    /\ mem = b.mem
    /\ current_bank = b.current_bank
    /\ registers = b.registers
    /\ mbc = b.mbc
    /\ interrupt_enable = b.interrupt_enable
    /\ dma_transfer = b.dma_transfer

(* no dma_transfer call recorded *)
NoBus == [mem |-> ZeroArray]

(* Inputs the calls are explored with: each decoding range of read_byte and *)
(* write_byte with its first and last address, the control ranges of       *)
(* MBC::set_bank, the DMA destination and the interrupt-flag register.     *)
Addrs ==
    {\h2000, \h3FFF, \h4000, \h6000, \h7FFF, \h8000, \hFEFF, \hFF00, \hFF0F,
     \hFFFE, \hFFFF}

Vals == {\h01, \h0A, \h14, \hAA}

Words == {\hAABB}

Banks == {0, 1, 2, 3, \h11}

Sources == {\h80}

DmaSources == {\h80, \hFE}

Init ==
    /\ \E kind \in MBCKinds : IsBus(Memory_new(kind))
    /\ panicked = FALSE
    /\ writes = 0
    /\ pc = "idle"
    /\ dma_i = 0
    /\ dma_source = 0
    /\ dma_saved = NoBus

Callable == ~panicked /\ pc = "idle"

WriteByte(addr, val) ==
    /\ Callable
    /\ writes < MaxWrites
    /\ SetBus(write_byte(Bus, addr, val))
    /\ writes' = writes + 1
    /\ UNCHANGED <<panicked, dmaVars>>

WriteWord(addr, val) ==
    /\ Callable
    /\ writes < MaxWrites
    /\ \/ /\ SetBus(write_word(Bus, addr, val))
          /\ UNCHANGED panicked
       \/ /\ WordOverflows(addr)
          /\ SetBus(write_byte(Bus, addr, BitAnd(val, \hFF)))
          /\ panicked' = TRUE
    /\ writes' = writes + 1
    /\ UNCHANGED dmaVars

ReadByte(addr) ==
    /\ Callable
    /\ \/ UNCHANGED panicked
       \/ /\ ReadOverflows(Bus, addr)
          /\ panicked' = TRUE
    /\ UNCHANGED <<busVars, writes, dmaVars>>

ReadWord(addr) ==
    /\ Callable
    /\ \/ UNCHANGED panicked
       \/ /\ \/ ReadOverflows(Bus, addr)
             \/ WordOverflows(addr)
             \/ ReadOverflows(Bus, Wrap16(addr + 1))
          /\ panicked' = TRUE
    /\ UNCHANGED <<busVars, writes, dmaVars>>

SetBank(bank) ==
    /\ Callable
    /\ SetBus(set_bank(Bus, bank))
    /\ UNCHANGED <<panicked, writes, dmaVars>>

CheckInterrupt(interrupt) ==
    /\ Callable
    /\ check_interrupt(Bus, interrupt) \in BOOLEAN
    /\ UNCHANGED vars

TriggerInterrupt(interrupt) ==
    /\ Callable
    /\ SetBus(trigger_interrupt(Bus, interrupt))
    /\ UNCHANGED <<panicked, writes, dmaVars>>

DmaTransfer(source) ==
    /\ Callable
    /\ SetBus(dma_transfer_call(Bus, source))
    /\ UNCHANGED <<panicked, writes, dmaVars>>

Next ==
    \/ \E addr \in Addrs, val \in Vals : WriteByte(addr, val)
    \/ \E addr \in Addrs, val \in Words : WriteWord(addr, val)
    \/ \E addr \in Addrs : ReadByte(addr)
    \/ \E addr \in Addrs : ReadWord(addr)
    \/ \E bank \in Banks : SetBank(bank)
    \/ \E interrupt \in Interrupts : CheckInterrupt(interrupt)
    \/ \E interrupt \in Interrupts : TriggerInterrupt(interrupt)
    \/ \E source \in Sources : DmaTransfer(source)

Spec == Init /\ [][Next]_vars

-----------------------------------------------------------------------------
(* dma_transfer statement by statement: the states inside the call, where  *)
(* self.dma_transfer is true.  SpecDma runs transfers on a bus prepared by *)
(* a few writes to the source page and the destination range.              *)

DmaAddrs == {\h8000, \hFE00, \hFE9F}

DmaVals == {\hAA}

DmaSetup(addr, val) ==
    /\ Callable
    /\ dma_saved = NoBus
    /\ writes < MaxDmaWrites
    /\ SetBus(write_byte(Bus, addr, val))
    /\ writes' = writes + 1
    /\ UNCHANGED <<panicked, dmaVars>>

(* lines 116-121: the guard, self.dma_transfer = true, source_addr *)
DmaBegin(source) ==
    /\ Callable
    /\ IF dma_transfer
       THEN UNCHANGED vars
       ELSE /\ dma_transfer' = TRUE
            /\ pc' = "dma_loop"
            /\ dma_i' = \hFE00
            /\ dma_source' = source
            /\ dma_saved' = Bus
            /\ UNCHANGED <<mem, current_bank, registers, mbc, interrupt_enable,
                           panicked, writes>>

(* lines 122-124: one iteration of the loop *)
DmaStep ==
    /\ pc = "dma_loop"
    /\ dma_i < \hFEA0
    /\ SetBus(dma_copy(Bus, dma_source, dma_i))
    /\ dma_i' = dma_i + 1
    /\ UNCHANGED <<panicked, writes, pc, dma_source, dma_saved>>

(* line 125: self.dma_transfer = false, and the call returns *)
DmaEnd ==
    /\ pc = "dma_loop"
    /\ dma_i >= \hFEA0
    /\ dma_transfer' = FALSE
    /\ pc' = "idle"
    /\ UNCHANGED <<mem, current_bank, registers, mbc, interrupt_enable,
                   panicked, writes, dma_i, dma_source, dma_saved>>

NextDma ==
    \/ \E addr \in DmaAddrs, val \in DmaVals : DmaSetup(addr, val)
    \/ \E source \in DmaSources : DmaBegin(source)
    \/ DmaStep
    \/ DmaEnd

SpecDma == Init /\ [][NextDma]_vars

-----------------------------------------------------------------------------
(* MBC::set_bank called directly on a controller of each variant, over the *)
(* whole control range 0x0000-0x7FFF.                                      *)

CtlAddrs ==
    {\h0000, \h1000, \h1FFF, \h2000, \h2FFF, \h3000, \h3FFF, \h4000, \h5FFF,
     \h6000, \h7FFF}

CtlVals == {\h00, \h01, \h05, \h0A, \h1A, \h7F, \hFA, \hFF}

ApplyWrite(addr, val) ==
    /\ Callable
    /\ \/ /\ mbc' = MBC_set_bank(mbc, addr, val)
          /\ UNCHANGED panicked
       \/ /\ SetBankOverflows(mbc, addr)
          /\ panicked' = TRUE
          /\ UNCHANGED mbc
    /\ UNCHANGED <<mem, current_bank, registers, interrupt_enable, dma_transfer,
                   writes, dmaVars>>

NextMbc == \E addr \in CtlAddrs, val \in CtlVals : ApplyWrite(addr, val)

SpecMbc == Init /\ [][NextMbc]_vars

-----------------------------------------------------------------------------
(* Properties.  Each is stated over the bus held in the variables, in every *)
(* reachable state, with the calls it is about applied to that bus.         *)

NonBankedProbe == {\h0000, \h2000, \h3FFE, \h3FFF}

BankedProbe == {\h4000, \h6000, \h7F00, \h7FFF}

IoProbe == {\hFF00, \hFF0F, \hFF80, \hFFFE}

ProbeVals == {\h00, \h01, \h0A, \h80, \hAA, \hFF}

ProbeWords == {\h0000, \h00FF, \hAABB, \hFF00}

(* C1: with no transfer in progress, write_byte(addr, v) followed          *)
(* immediately by read_byte(addr) returns v, for addr in [0x0000,0x4000).  *)
C1_RoundTripNonBanked ==
    (~dma_transfer /\ ~panicked) =>
        \A addr \in NonBankedProbe, v \in ProbeVals :
            read_byte(write_byte(Bus, addr, v), addr) = v

(* a write_byte(0x2000, 0xAA) has been made and reads back *)
C1_Witness ==
    /\ writes = 1 /\ ~panicked /\ ~dma_transfer
    /\ read_byte(Bus, \h2000) = \hAA

(* test_banked_memory for an address a and a value v, on the bus b: the    *)
(* two assertions of the test.                                             *)
test_banked_memory(b, a, v) ==
    LET written == write_byte(b, a, v)
        bank1   == set_bank(written, 1)
        bank0   == set_bank(bank1, 0)
    IN  /\ read_byte(bank1, a) # v
        /\ read_byte(bank0, a) = v

(* C2: bank isolation.  On a freshly constructed bus (Memory::new(), bank  *)
(* 0 active), for a in [0x4000,0x8000) and non-zero v: after               *)
(* write_byte(a, v) and set_bank(1) read_byte(a) does not return v, and    *)
(* after set_bank(0) it returns v again.                                   *)
C2_BankIsolation ==
    IsBus(Memory_new("None")) =>
        \A a \in BankedProbe, v \in ProbeVals \ {0} : test_banked_memory(Bus, a, v)

(* C3: word round trip, little-endian.  With no transfer in progress and   *)
(* addr, addr+1 both in [0x0000,0x4000): write_word(addr, v) then          *)
(* read_word(addr) returns v, read_byte(addr) the low byte and             *)
(* read_byte(addr+1) the high byte.                                        *)
C3_WordRoundTrip ==
    (~dma_transfer /\ ~panicked) =>
        \A addr \in NonBankedProbe \ {\h3FFF}, v \in ProbeWords :
            LET b == write_word(Bus, addr, v)
            IN  /\ ~WordOverflows(addr)
                /\ read_word(b, addr) = v
                /\ read_byte(b, addr) = v % 256
                /\ read_byte(b, addr + 1) = v \div 256

(* a write_word(0x2000, 0xAABB) has been made and reads back *)
C3_Witness ==
    /\ writes = 1 /\ ~panicked /\ ~dma_transfer
    /\ read_word(Bus, \h2000) = \hAABB
    /\ read_byte(Bus, \h2000) = \hBB
    /\ read_byte(Bus, \h2001) = \hAA

(* C4: with no transfer in progress, write_byte(addr, v) then              *)
(* read_byte(addr) returns v for addr in [0xFF00,0xFFFF), the value being  *)
(* held in registers[addr - 0xFF00]; and for addr = 0xFFFF, the value      *)
(* being held in interrupt_enable.                                         *)
C4_IoRoundTrip ==
    (~dma_transfer /\ ~panicked) =>
        \A v \in ProbeVals :
            /\ \A addr \in IoProbe :
                  LET b == write_byte(Bus, addr, v)
                  IN  /\ read_byte(b, addr) = v
                      /\ Peek(b.registers, addr - \hFF00) = v
            /\ LET b == write_byte(Bus, \hFFFF, v)
               IN  /\ read_byte(b, \hFFFF) = v
                   /\ b.interrupt_enable = v

(* write_byte(0xFFFF, 0x14) has been made: the value is in interrupt_enable *)
C4_Witness ==
    /\ writes = 1 /\ ~panicked /\ ~dma_transfer
    /\ interrupt_enable = \h14
    /\ read_byte(Bus, \hFFFF) = \h14
    /\ registers = ZeroArray

(* C5: I/O window isolation.  write_byte to [0xFF00,0xFFFF) leaves         *)
(* read_byte(a) unchanged for every a in [0x0000,0x8000) under the active  *)
(* bank, and write_byte to [0x0000,0x8000) leaves every I/O register       *)
(* unchanged.                                                              *)
C5_IoIsolation ==
    ~panicked => \A v \in {\h00, \hAA} :
        /\ \A addr \in IoProbe :
              LET b == write_byte(Bus, addr, v)
              IN  \A a \in NonBankedProbe \cup BankedProbe :
                      /\ read_byte(b, a) = read_byte(Bus, a)
                      /\ ReadOverflows(b, a) = ReadOverflows(Bus, a)
        /\ \A a \in NonBankedProbe \cup BankedProbe :
              LET b == write_byte(Bus, a, v)
              IN  /\ b.registers = registers
                  /\ \A addr \in IoProbe : read_byte(b, addr) = read_byte(Bus, addr)

(* an I/O register has been written while bank 2 maps 0x7F00 onto index    *)
(* 0xFF00 of the flat array, which still reads 0                           *)
C5_Witness ==
    /\ writes = 1 /\ ~panicked /\ ~dma_transfer
    /\ read_byte(Bus, \hFF00) = \hAA
    /\ MBC_get_bank(mbc, current_bank) = 2
    /\ read_byte(Bus, \h7F00) = 0

(* the destination range of dma_transfer *)
DmaDest == \hFE00 .. \hFE9F

(* C6: transfer self-blocking.  From a state with no transfer in progress, *)
(* dma_transfer(p) leaves every byte of 0xFE00..0xFEA0 equal to its        *)
(* pre-call value, at every iteration and on return, and the flag is false *)
(* again when the call returns: it is false in every state between calls.  *)
C6_TransferSelfBlocking ==
    /\ pc = "idle" => ~dma_transfer
    /\ dma_saved # NoBus =>
          /\ ~dma_saved.dma_transfer
          /\ \A i \in DmaDest : Peek(mem, i) = Peek(dma_saved.mem, i)
          /\ pc = "idle" =>
                /\ Bus = dma_saved
                /\ \A i \in DmaDest : read_byte(Bus, i) = read_byte(dma_saved, i)

(* dma_transfer(0x80) has returned: the source page holds 0xAA at 0x8000   *)
(* and the destination holds its old bytes, 0xAA at 0xFE9F and 0 at 0xFE00 *)
C6_Witness ==
    /\ pc = "idle" /\ dma_saved # NoBus /\ dma_i = \hFEA0 /\ dma_source = \h80
    /\ ~dma_transfer
    /\ Peek(mem, \h8000) = \hAA
    /\ Peek(mem, \hFE00) = 0
    /\ Peek(mem, \hFE9F) = \hAA

BankedKinds == {"MBC1", "MBC2", "MBC3", "MBC5"}

(* C7: enable-nibble convention.  For each banked variant, every addr in   *)
(* [0x0000,0x2000) and every byte val, MBC::set_bank(addr, val, _) sets    *)
(* ram_enable to true exactly when the low nibble of val is 0xA, whatever  *)
(* ram_enable was before.                                                  *)
C7_EnableNibble ==
    mbc.kind \in BankedKinds =>
        \A addr \in {\h0000, \h1000, \h1FFF}, val \in 0 .. 255 :
            MBC_set_bank(mbc, addr, val).ram_enable = (val % 16 = 10)

(* an MBC2 controller enabled by a write of 0x_A: a write of 0x0A would    *)
(* enable it again and a write of 0x05 disable it                          *)
C7_Witness ==
    /\ mbc.kind = "MBC2"
    /\ mbc.ram_enable
    /\ MBC_set_bank(mbc, \h1000, \h0A).ram_enable
    /\ ~MBC_set_bank(mbc, \h1000, \h05).ram_enable

(* bit n of the byte x *)
Bit(x, n) == (x \div (2 ^ n)) % 2

(* the enable bit the claim gives each interrupt kind *)
EnableBit(interrupt) ==
    CASE interrupt = "VBlank"  -> 0
      [] interrupt = "LCDStat" -> 1
      [] interrupt = "Timer"   -> 2
      [] interrupt = "Serial"  -> 3
      [] interrupt = "Joypad"  -> 4

(* C8: interrupt gating.  If the bit of interrupt_enable for kind k is     *)
(* clear, trigger_interrupt(k) leaves the flag register at 0xFF0F and all  *)
(* other state unchanged; trigger_interrupt(VBlank) changes the flag       *)
(* register only when bit0 of interrupt_enable is set, which takes a prior *)
(* write (interrupt_enable is 0 until one is made).                        *)
C8_InterruptGating ==
    ~panicked =>
        /\ \A k \in Interrupts :
              Bit(interrupt_enable, EnableBit(k)) = 0 =>
                  /\ trigger_interrupt(Bus, k) = Bus
                  /\ ~check_interrupt(Bus, k)
        /\ read_byte(trigger_interrupt(Bus, "VBlank"), \hFF0F) # read_byte(Bus, \hFF0F)
              => (Bit(interrupt_enable, 0) = 1 /\ writes > 0)

(* after write_byte(0xFFFF, 0x01) and trigger_interrupt(VBlank) the flag   *)
(* register holds bit0; the four other kinds are disabled and gated        *)
C8_Witness ==
    /\ writes = 1 /\ ~panicked /\ ~dma_transfer
    /\ interrupt_enable = \h01
    /\ Peek(registers, \h0F) = \h01
    /\ \A k \in Interrupts \ {"VBlank"} : trigger_interrupt(Bus, k) = Bus

(* C9: totality of banked reads.  For every addr in [0x4000,0x8000), every *)
(* current_bank settable through set_bank and every variant, read_byte     *)
(* returns without fault: the bank offset get_bank(current_bank) * 0x4000  *)
(* and the effective address addr + offset stay within 0..0xFFFF.          *)
C9_BankedReadsTotal ==
    (~panicked /\ ~dma_transfer) =>
        \A addr \in BankedProbe :
            /\ BankOffsetExact(Bus) <= \hFFFF
            /\ addr + BankOffsetExact(Bus) <= \hFFFF
            /\ ~ReadOverflows(Bus, addr)

AllProbe == NonBankedProbe \cup BankedProbe \cup IoProbe \cup {\h8000, \hFE00, \hFE9F, \hFFFF}

(* C10: while dma_transfer is true, read_byte returns 0xFF for every addr, *)
(* write_byte leaves the whole state unchanged, and a re-entrant           *)
(* dma_transfer leaves the whole state unchanged, the flag staying true.   *)
C10_TransferBlocksBus ==
    dma_transfer =>
        /\ \A addr \in AllProbe :
              /\ read_byte(Bus, addr) = \hFF
              /\ \A v \in {\h00, \hAA} : write_byte(Bus, addr, v) = Bus
        /\ \A p \in {\h00, \h80, \hFE, \hFF} :
              /\ dma_transfer_call(Bus, p) = Bus
              /\ dma_transfer_call(Bus, p).dma_transfer

(* inside the loop of dma_transfer(0x80), with 0xAA stored at 0x8000 and   *)
(* at 0xFE00: both read as 0xFF                                            *)
C10_Witness ==
    /\ dma_transfer /\ pc = "dma_loop" /\ dma_i = \hFE50 /\ dma_source = \h80
    /\ Peek(mem, \h8000) = \hAA
    /\ Peek(mem, \hFE00) = \hAA
    /\ read_byte(Bus, \h8000) = \hFF

(***************************************************************************)
(* C11, C12 - writes to the control range 0x0000..0x7FFF                   *)
(***************************************************************************)

(* control-range addresses on both sides of 0x4000 *)
ControlProbe == {\h0000, \h1000, \h1FFF, \h2000, \h3FFF, \h4000, \h5FFF, \h6000, \h7FFF}

(* C11: with no transfer in progress, write_byte(addr, val) for every addr *)
(* of the control range 0x0000..0x7FFF leaves the controller registers as  *)
(* MBC::set_bank(addr, val) leaves them; for MBC2, write_byte(0x1000,      *)
(* 0x0A) sets ram_enable and write_byte(0x2000, val) sets rom_bank to      *)
(* val & 0x0F.                                                             *)
C11_ControlWritesForwarded ==
    (~panicked /\ ~dma_transfer) =>
        /\ \A addr \in ControlProbe : \A val \in ProbeVals :
              write_byte(Bus, addr, val).mbc = MBC_set_bank(mbc, addr, val)
        /\ mbc.kind = "MBC2" =>
              /\ write_byte(Bus, \h1000, \h0A).mbc.ram_enable
              /\ \A val \in ProbeVals :
                    write_byte(Bus, \h2000, val).mbc.rom_bank = BitAnd(val, \h0F)

(* C12: for the banked controllers, write_byte(addr, val) with addr in the *)
(* control range 0x0000..0x7FFF stores nothing: mem is unchanged and only  *)
(* the controller registers may change.                                    *)
C12_ControlWritesStoreNothing ==
    (~panicked /\ ~dma_transfer /\ mbc.kind # "None") =>
        \A addr \in ControlProbe : \A val \in ProbeVals :
            /\ write_byte(Bus, addr, val).mem = mem
            /\ write_byte(Bus, addr, val) = [Bus EXCEPT !.mbc = write_byte(Bus, addr, val).mbc]

(***************************************************************************)
(* C13 - MBC::get_bank against the variant table                           *)
(***************************************************************************)

(* requested banks: each low-bit pattern, and bits above every mask *)
BankProbe == {\h00, \h01, \h02, \h03, \h0F, \h10, \h1F, \h20, \h3F, \h7F, \h80, \hFF}

(* C13: get_bank follows the variant table: None, MBC3 and MBC5 return the *)
(* requested bank unchanged; MBC2 returns bank & 0x0F; MBC1 returns        *)
(* bank & 0x1F when rom_mode is true and (bank & 0x03) | (ram_bank << 5)   *)
(* when rom_mode is false.                                                 *)
C13_ResolveTable ==
    \A bank \in BankProbe :
        MBC_get_bank(mbc, bank) =
            CASE mbc.kind \in {"None", "MBC3", "MBC5"} -> bank
              [] mbc.kind = "MBC2" -> bank % 16
              [] mbc.kind = "MBC1" ->
                    IF mbc.rom_mode THEN bank % 32
                    ELSE BitOr(bank % 4, mbc.ram_bank * 32)

(***************************************************************************)
(* C14 - widths of the controller registers                                *)
(***************************************************************************)

(* C14 as stated: after any sequence of control-range writes rom_bank is   *)
(* at most 0x1F for MBC1, 0x0F for MBC2, 0x7F for MBC3 and 0x1FF for MBC5, *)
(* and ram_bank is at most 0x03 for MBC1 and MBC3 and 0x0F for MBC5.       *)
C14_RegisterWidthsStated ==
    /\ mbc.kind = "MBC1" => mbc.rom_bank <= \h1F /\ mbc.ram_bank <= \h03
    /\ mbc.kind = "MBC2" => mbc.rom_bank <= \h0F
    /\ mbc.kind = "MBC3" => mbc.rom_bank <= \h7F /\ mbc.ram_bank <= \h03
    /\ mbc.kind = "MBC5" => mbc.rom_bank <= \h1FF /\ mbc.ram_bank <= \h0F

(* C14, amended: after any sequence of control-range writes rom_bank is at *)
(* most 0x7F for MBC1 (5 low bits and the 2 upper bits written in ROM      *)
(* mode), 0x0F for MBC2, 0x7F for MBC3 and 0x1FF for MBC5, and ram_bank is *)
(* at most 0x03 for MBC1 and MBC3 and 0x0F for MBC5; the registers are     *)
(* never negative.                                                         *)
C14_RegisterWidths ==
    /\ mbc.rom_bank >= 0 /\ mbc.ram_bank >= 0
    /\ mbc.kind = "MBC1" => mbc.rom_bank <= \h7F /\ mbc.ram_bank <= \h03
    /\ mbc.kind = "MBC2" => mbc.rom_bank <= \h0F
    /\ mbc.kind = "MBC3" => mbc.rom_bank <= \h7F /\ mbc.ram_bank <= \h03
    /\ mbc.kind = "MBC5" => mbc.rom_bank <= \h1FF /\ mbc.ram_bank <= \h0F

(* an MBC1 in ROM mode whose ROM bank number has all 7 bits set, next to   *)
(* a full RAM bank number                                                  *)
C14_Witness ==
    /\ mbc.kind = "MBC1" /\ mbc.rom_mode
    /\ mbc.rom_bank = \h7F /\ mbc.ram_bank = \h03

(***************************************************************************)
(* C15 - the 9-bit ROM bank number of MBC5                                 *)
(***************************************************************************)

(* low bytes and upper-bit bytes written to the two MBC5 bank registers *)
LoProbe == {\h00, \h01, \h34, \hFE, \hFF}

HiProbe == {\h00, \h01, \h02, \hFF}

(* C15: for an MBC5, after a write of lo to 0x2000..0x2FFF and a write of  *)
(* hi to 0x3000..0x3FFF, in either order and from any earlier rom_bank,    *)
(* rom_bank = ((hi & 0x01) << 8) | lo: the low-byte write keeps bit 8, the *)
(* upper-bit write keeps bits 0..7, and the two writes commute.            *)
C15_NineBitComposition ==
    (~panicked /\ mbc.kind = "MBC5") =>
        \A lo \in LoProbe : \A hi \in HiProbe :
        \A a_lo \in {\h2000, \h2FFF} : \A a_hi \in {\h3000, \h3FFF} :
            LET lo_hi == MBC_set_bank(MBC_set_bank(mbc, a_lo, lo), a_hi, hi)
                hi_lo == MBC_set_bank(MBC_set_bank(mbc, a_hi, hi), a_lo, lo)
            IN  /\ ~SetBankOverflows(mbc, a_hi)
                /\ lo_hi.rom_bank = (hi % 2) * 256 + lo
                /\ hi_lo.rom_bank = (hi % 2) * 256 + lo
                /\ lo_hi = hi_lo

(***************************************************************************)
(* C16 - word accesses are two byte accesses                               *)
(***************************************************************************)

(* word addresses inside a range and on each range boundary *)
WordProbe == {\h2000, \h3FFF, \h7FFF, \h8000, \hFEFF, \hFF0F, \hFFFE}

(* C16: for every addr below 0xFFFF and every state, read_word(addr) is    *)
(* read_byte(addr) + 256 * read_byte(addr + 1), and write_word(addr, v)    *)
(* leaves the state of write_byte(addr, v & 0xFF) followed by              *)
(* write_byte(addr + 1, v >> 8); each byte is decoded on its own, also     *)
(* when addr and addr + 1 lie in different ranges.                         *)
C16_WordIsTwoBytes ==
    ~panicked =>
        \A addr \in WordProbe :
            /\ read_word(Bus, addr) = read_byte(Bus, addr) + 256 * read_byte(Bus, addr + 1)
            /\ \A v \in {\h00FF, \hAABB} :
                  LET lo_written == write_byte(Bus, addr, v % 256)
                  IN  write_word(Bus, addr, v) = write_byte(lo_written, addr + 1, v \div 256)

(* after write_word(0xFFFE, 0xAABB): the low byte is in the last I/O       *)
(* register and the high byte in interrupt_enable, and the word reads back *)
C16_Witness ==
    /\ ~panicked /\ ~dma_transfer /\ writes = 1
    /\ Peek(registers, \hFE) = \hBB
    /\ interrupt_enable = \hAA
    /\ read_word(Bus, \hFFFE) = \hAABB

(***************************************************************************)
(* C17 - the interrupt flag register                                       *)
(***************************************************************************)

(* the byte x with bit 0 set *)
WithBit0(x) == IF x % 2 = 1 THEN x ELSE x + 1

(* C17: with no transfer in progress, for every interrupt kind k whose     *)
(* enable bit is set, trigger_interrupt(k) sets bit 0 of the flag register *)
(* at 0xFF0F (new = old | 0x01) whatever k is, and changes nothing else.   *)
C17_TriggerSetsBit0 ==
    (~panicked /\ ~dma_transfer) =>
        \A old \in ProbeVals :
            LET b == write_byte(Bus, \hFF0F, old)
            IN  \A k \in Interrupts :
                    Bit(b.interrupt_enable, EnableBit(k)) = 1 =>
                        /\ read_byte(b, \hFF0F) = old
                        /\ read_byte(trigger_interrupt(b, k), \hFF0F) = WithBit0(old)
                        /\ trigger_interrupt(b, k)
                              = [b EXCEPT !.registers = Poke(b.registers, \h0F, WithBit0(old))]

(* after write_byte(0xFFFF, 0x0A), which enables LCDStat and Serial only,  *)
(* and a trigger_interrupt of one of them: bit 0 of the flag register is   *)
(* set, not bit 1 or bit 3                                                 *)
C17_Witness ==
    /\ writes = 1 /\ ~panicked /\ ~dma_transfer
    /\ interrupt_enable = \h0A
    /\ Peek(registers, \h0F) = \h01

(***************************************************************************)
(* C18 - what changes the controller                                       *)
(***************************************************************************)

(* addresses from 0x8000 up, in each range above the control range *)
HighProbe == {\h8000, \hFE00, \hFF0F, \hFFFE, \hFFFF}

(* the addresses a write of the bus touches that lie in the control range: *)
(* addr itself, and addr + 1 for the second byte of a word                 *)
ControlWritten == {a \in Addrs \cup {Wrap16(x + 1) : x \in Addrs} : a < \h8000}

(* the operations outside the control range leave the controller as it is *)
C18_OperationsKeepController ==
    ~panicked =>
        /\ \A addr \in HighProbe : \A val \in {\h0A, \hFF} :
              write_byte(Bus, addr, val).mbc = mbc
        /\ \A addr \in HighProbe : write_word(Bus, addr, \hFF0A).mbc = mbc
        /\ \A bank \in {\h01, \hFF} : set_bank(Bus, bank).mbc = mbc
        /\ \A k \in Interrupts : trigger_interrupt(Bus, k).mbc = mbc

(* a step keeps the controller's variant, and changes the controller only  *)
(* as one byte written into the control range changes it                   *)
C18_StepKeepsController ==
    /\ mbc'.kind = mbc.kind
    /\ mbc' # mbc =>
          /\ writes' = writes + 1
          /\ \E addr \in ControlWritten : \E val \in 0..255 :
                mbc' = MBC_set_bank(mbc, addr, val)

(* C18: the controller state is changed only by writes into the control    *)
(* range 0x0000..0x7FFF: write_byte and write_word to 0x8000..0xFFFF,      *)
(* set_bank, read_byte, read_word, check_interrupt, trigger_interrupt and  *)
(* dma_transfer leave it unchanged, and its variant never changes.         *)
C18_ControllerFrame ==
    /\ [] C18_OperationsKeepController
    /\ [][C18_StepKeepsController]_vars

(* an MBC1 whose RAM bank number was set by a control write, with the bank *)
(* selected through set_bank and an interrupt flag raised around it        *)
C18_Witness ==
    /\ ~panicked /\ writes = 1
    /\ mbc.kind = "MBC1" /\ mbc.ram_bank = 2
    /\ current_bank = 1

(***************************************************************************)
(* C19 - the window under bank 1 aliases 0x8000..0xBFFF                    *)
(***************************************************************************)

(* C19: with no transfer in progress and effective bank 1, for every a in  *)
(* 0x4000..0x7FFF read_byte(a) returns the byte of mem at a + 0x4000, the  *)
(* byte read_byte(a + 0x4000) returns; a write_byte(a + 0x4000, v) is seen *)
(* by read_byte(a).                                                        *)
C19_BankOneAliases ==
    (~panicked /\ ~dma_transfer /\ MBC_get_bank(mbc, current_bank) = 1) =>
        \A a \in BankedProbe :
            /\ ~ReadOverflows(Bus, a)
            /\ read_byte(Bus, a) = Peek(mem, a + \h4000)
            /\ read_byte(Bus, a) = read_byte(Bus, a + \h4000)
            /\ \A v \in ProbeVals :
                  read_byte(write_byte(Bus, a + \h4000, v), a) = v

(* after write_byte(0x8000, 0xAA) and set_bank(1): the byte shows at       *)
(* 0x4000 although nothing was written in the window                       *)
C19_Witness ==
    /\ ~panicked /\ ~dma_transfer /\ writes = 1
    /\ mbc.kind = "None" /\ current_bank = 1
    /\ Peek(mem, \h8000) = \hAA
    /\ Peek(mem, \h4000) = 0
    /\ read_byte(Bus, \h4000) = \hAA

(***************************************************************************)
(* C20 - rom_bank and ram_enable do not reach the read path                *)
(***************************************************************************)

(* other contents of the two registers: a ROM bank number of each width,  *)
(* RAM enabled and disabled                                                *)
RegisterProbe == {<<\h00, TRUE>>, <<\h01, TRUE>>, <<\h1F, FALSE>>, <<\h1FF, FALSE>>}

(* addresses of every range read_byte decodes *)
ReadProbe == BankedProbe \cup {\h2000, \h8000, \hFF0F, \hFFFF}

(* the bus b with other rom_bank and ram_enable registers *)
WithRegisters(b, rom_bank, ram_enable) ==
    [b EXCEPT !.mbc = [b.mbc EXCEPT !.rom_bank = rom_bank, !.ram_enable = ram_enable]]

(* C20: rom_bank and ram_enable never influence a read: two bus states     *)
(* that agree on everything but rom_bank and ram_enable return the same    *)
(* read_byte(addr) for every addr, and fail on the same reads.             *)
C20_ReadsIgnoreRomBank ==
    \A r \in RegisterProbe :
        LET other == WithRegisters(Bus, r[1], r[2])
        IN  \A addr \in ReadProbe :
                /\ read_byte(other, addr) = read_byte(Bus, addr)
                /\ ReadOverflows(other, addr) = ReadOverflows(Bus, addr)

(* a banked controller whose window shows a byte that is not in bank 0: a  *)
(* read through another bank would differ, one with rom_bank = 1 and RAM   *)
(* enabled does not                                                        *)
C20_Witness ==
    /\ ~panicked /\ ~dma_transfer
    /\ mbc.kind = "MBC3" /\ current_bank = 1
    /\ read_byte(Bus, \h4000) = \hAA
    /\ read_byte(set_bank(Bus, 0), \h4000) = 0
    /\ WithRegisters(Bus, 1, TRUE) # Bus
    /\ read_byte(WithRegisters(set_bank(Bus, 0), 1, TRUE), \h4000) = 0

=============================================================================
